---- MODULE Spec2Model ----
(***************************************************************************)
(* Session state machine of the review assistant (src/intent_handler.py). *)
(* A SessionState is a record; every handler is an operator from a        *)
(* session, the intent's data and the outcome of the collaborator calls   *)
(* it makes to the new session, the response dictionary and a flag        *)
(* telling whether the handler raised.  A Python dictionary is a record   *)
(* whose DOMAIN is the set of keys that are present.                       *)
(***************************************************************************)
EXTENDS Integers, Sequences, FiniteSets, TLC

VARIABLES session, responses, reply, raised,
          question_generator, answer_evaluator, document_processor,
          utterance, classification,
          arguments, returned

vars == <<session, responses, reply, raised,
          question_generator, answer_evaluator, document_processor,
          utterance, classification, arguments, returned>>

(* ------------------------------ bounds --------------------------------- *)
\* answers evaluated in one conversation (total_answered is never reset)
MaxAnswered == 2
\* additional intents carried by one call of handle_intent
MaxAdditional == 1

(* ------------------------- values of the model ------------------------- *)
\* Python's None
None == [none |-> TRUE]

\* texts a generated question can have (two calls may return equal content)
QuestionTexts == {"q1", "q2"}
\* answers a user can give
Answers == {"a1"}

\* limits of handle_set_num_questions
MinNumQuestions == 1
MaxNumQuestions == 50

\* outcome of the collaborator calls of one handler:
\*   gen: the text of the question generate_question returns, or "raise"
\*   ev : what evaluate_answer returns ("correct"/"incorrect"), or "raise"
Envs == [gen : QuestionTexts \cup {"raise"}, ev : {"correct", "incorrect", "raise"}]
NoFailEnvs == {e \in Envs : e.gen # "raise" /\ e.ev # "raise"}

\* the state after SessionState.__init__
SessionState ==
  [question_type |-> "multiple-choice",
   num_questions |-> 5,
   current_topics |-> <<>>,
   difficulty |-> "medium",
   current_question |-> None,
   question_history |-> <<>>,
   correct_answers |-> 0,
   total_answered |-> 0,
   is_reviewing |-> FALSE,
   documents_loaded |-> FALSE,
   speech_enabled |-> FALSE,
   awaiting_feedback |-> FALSE,
   last_evaluation |-> None,
   next_question |-> None]

\* a handler that returned response r and left the session as s
Ret(s, r) == [session |-> s, response |-> r, raised |-> FALSE]
\* a handler that raised after leaving the session as s
Raise(s) == [session |-> s, response |-> None, raised |-> TRUE]

\* question_generator.generate_question(topics, question_type, difficulty)
generate_question(topics, question_type, difficulty, env) ==
  [question |-> env.gen, type |-> question_type,
   difficulty |-> difficulty, topics |-> topics]

\* answer_evaluator.evaluate_answer(question, user_answer)
evaluate_answer(question, user_answer, env) ==
  [is_correct |-> (env.ev = "correct"), feedback |-> env.ev]

\* (correct / total) * 100 if total > 0 else 0, kept exact as a fraction
Accuracy(correct, total) ==
  IF total > 0 THEN [num |-> correct * 100, den |-> total]
               ELSE [num |-> 0, den |-> 1]

(* ------------------------------ handlers ------------------------------- *)
handle_document_upload(s, data, env) ==
  IF ~document_processor
    THEN Ret(s, [text |-> <<"Document processing is not available.">>])
    ELSE Ret(s, [text |-> <<"To upload documents, drag and drop them.">>,
                 intent |-> "document_upload"])

handle_review_settings(s, data, env) ==
  Ret(s, [text |-> <<"Current review settings", s.question_type,
                     ToString(s.num_questions), s.difficulty,
                     IF s.documents_loaded THEN "" ELSE "No documents have been loaded yet.">>,
          intent |-> "review_settings"])

\* mutant: start_review without its guard
documents_missing_never(s) == FALSE

\* the guard of handle_start_review: not self.session.documents_loaded
documents_missing(s) == ~s.documents_loaded

\* mutant: the generator is called without looking whether there is one, as
\* handle_answer calls it
handle_start_review_unchecked(s, data, env) ==
  IF documents_missing(s)
    THEN Ret(s, [text |-> <<"Please upload some documents first.">>,
                 intent |-> "start_review"])
    ELSE LET s1 == [s EXCEPT !.is_reviewing = TRUE] IN
         IF ~question_generator \/ env.gen = "raise"
           THEN Raise(s1)
           ELSE LET question_data == generate_question(s1.current_topics,
                                       s1.question_type, s1.difficulty, env)
                IN Ret([s1 EXCEPT !.current_question = question_data],
                       [text |-> <<"Let's start the review session.", question_data.question>>,
                        question |-> question_data,
                        intent |-> "start_review"])

handle_start_review(s, data, env) ==
  IF documents_missing(s)
    THEN Ret(s, [text |-> <<"Please upload some documents first.">>,
                 intent |-> "start_review"])
    ELSE LET s1 == [s EXCEPT !.is_reviewing = TRUE] IN
         IF question_generator
           THEN IF env.gen = "raise"
                  THEN Raise(s1)
                  ELSE LET question_data == generate_question(s1.current_topics,
                                              s1.question_type, s1.difficulty, env)
                       IN Ret([s1 EXCEPT !.current_question = question_data],
                              [text |-> <<"Let's start the review session.", question_data.question>>,
                               question |-> question_data,
                               intent |-> "start_review"])
           ELSE Ret(s1, [text |-> <<"Question generation is not available.">>,
                         intent |-> "start_review"])

handle_stop_review(s, data, env) ==
  IF ~s.is_reviewing
    THEN Ret(s, [text |-> <<"We're not currently in a review session.">>,
                 intent |-> "stop_review"])
    ELSE LET s1 == [s EXCEPT !.is_reviewing = FALSE]
             correct == s1.correct_answers
             total == s1.total_answered
         IN Ret(s1, [text |-> <<"Review session ended.", ToString(correct), ToString(total)>>,
                     session_summary |-> [correct |-> correct, total |-> total,
                                          accuracy |-> Accuracy(correct, total)],
                     intent |-> "stop_review"])

\* mutant: one question too many (<= for <)
more_questions_remain_le(s) == s.total_answered <= s.num_questions

\* handle_answer: self.session.total_answered < self.session.num_questions
more_questions_remain(s) == s.total_answered < s.num_questions

\* mutant: the next question is presented with the feedback, as the handler
\* did before the feedback flow was introduced
withhold_next_question_presented(s1, evaluation, next_question) ==
  Ret([s1 EXCEPT !.current_question = next_question],
      [text |-> <<evaluation.feedback, "Next question:", next_question.question>>,
       question |-> next_question,
       evaluation |-> evaluation,
       intent |-> "answer"])

\* handle_answer, more questions remain: the next question is stored and the
\* reply is the feedback alone
withhold_next_question(s1, evaluation, next_question) ==
  Ret([s1 EXCEPT !.next_question = next_question,
                 !.awaiting_feedback = TRUE,
                 !.last_evaluation = evaluation],
      [text |-> <<evaluation.feedback,
                  "Would you like to continue to the next question?">>,
       evaluation |-> evaluation,
       intent |-> "answer"])

\* handle_answer, end of session
end_of_session(s1, evaluation) ==
  LET correct == s1.correct_answers
      total == s1.total_answered
  IN Ret([s1 EXCEPT !.current_question = None,
                    !.is_reviewing = FALSE],
         [text |-> <<evaluation.feedback, "That completes our review session.",
                     ToString(correct), ToString(total)>>,
          session_summary |-> [correct |-> correct, total |-> total,
                               accuracy |-> Accuracy(correct, total)],
          intent |-> "answer"])

handle_answer(s, data, env) ==
  IF ~s.is_reviewing
    THEN Ret(s, [text |-> <<"We're not currently in a review session. Would you like to start one?">>,
                 intent |-> "answer"])
  ELSE IF s.current_question = None
    THEN Ret(s, [text |-> <<"I don't have an active question for you to answer.">>,
                 intent |-> "answer"])
  ELSE
    LET user_answer == IF "answer" \in DOMAIN data THEN data.answer ELSE "" IN
    IF answer_evaluator
      THEN IF env.ev = "raise"
        THEN Raise(s)
        ELSE
          LET evaluation == evaluate_answer(s.current_question, user_answer, env)
              s1 == [s EXCEPT
                       !.total_answered = @ + 1,
                       !.correct_answers = IF evaluation.is_correct THEN @ + 1 ELSE @,
                       !.question_history = Append(@,
                           [question |-> s.current_question,
                            user_answer |-> user_answer,
                            evaluation |-> evaluation])]
          IN IF more_questions_remain(s1)
               THEN \* self.question_generator.generate_question(...) on a missing
                    \* generator is an AttributeError
                    IF ~question_generator \/ env.gen = "raise"
                      THEN Raise(s1)
                      ELSE withhold_next_question(s1, evaluation,
                             generate_question(s1.current_topics, s1.question_type,
                                               s1.difficulty, env))
               ELSE end_of_session(s1, evaluation)
      ELSE Ret(s, [text |-> <<"Answer evaluation is not available.">>,
                   intent |-> "answer"])

\* mutant: the feedback flag is not reset
reset_feedback_flag_forgotten(s) == s

\* handle_continue: self.session.awaiting_feedback = False
reset_feedback_flag(s) == [s EXCEPT !.awaiting_feedback = FALSE]

\* mutant: the promoted question stays in next_question
present_next_question_kept(s1) ==
  LET next_question == s1.next_question
  IN IF next_question # None
       THEN Ret([s1 EXCEPT !.current_question = next_question],
                [text |-> <<"Next question:", next_question.question>>,
                 question |-> next_question,
                 intent |-> "continue"])
       ELSE Ret(s1, [text |-> <<"I don't have a next question prepared.">>,
                     intent |-> "continue"])

\* handle_continue: present the question generated by the previous answer
present_next_question(s1) ==
  LET next_question == s1.next_question
  IN IF next_question # None
       THEN Ret([s1 EXCEPT !.current_question = next_question,
                           !.next_question = None],
                [text |-> <<"Next question:", next_question.question>>,
                 question |-> next_question,
                 intent |-> "continue"])
       ELSE Ret(s1, [text |-> <<"I don't have a next question prepared.">>,
                     intent |-> "continue"])

handle_continue(s, data, env) ==
  IF ~s.is_reviewing
    THEN Ret(s, [text |-> <<"We're not currently in a review session. Would you like to start one?">>,
                 intent |-> "continue"])
  ELSE IF ~s.awaiting_feedback
    THEN Ret(s, [text |-> <<"Please answer the current question first.">>,
                 intent |-> "continue"])
  ELSE present_next_question(reset_feedback_flag(s))

handle_review_status(s, data, env) ==
  IF ~s.is_reviewing /\ s.total_answered = 0
    THEN Ret(s, [text |-> <<"You haven't started any review sessions yet.">>,
                 intent |-> "review_status"])
    ELSE LET correct == s.correct_answers
             total == s.total_answered
             remaining == IF s.is_reviewing THEN s.num_questions - total ELSE 0
             accuracy == Accuracy(correct, total)
         IN Ret(s, [text |-> <<"You've answered", ToString(correct), ToString(total)>>
                              \o (IF s.is_reviewing THEN <<"remaining", ToString(remaining)>>
                                                    ELSE <<>>),
                    session_status |-> [correct |-> correct, total |-> total,
                                        remaining |-> remaining, accuracy |-> accuracy,
                                        is_reviewing |-> s.is_reviewing],
                    intent |-> "review_status"])

\* str.lower() on the strings the model uses
Lower(str) ==
  CASE str = "Hard" -> "hard"
    [] str = "MC" -> "mc"
    [] OTHER -> str

\* mutant: a new question type discards the question prepared with the old one
handle_set_question_type_dropping_next(s, data, env) ==
  LET question_type == Lower(IF "question_type" \in DOMAIN data THEN data.question_type ELSE "") IN
  IF question_type \in {"multiple-choice", "multiple choice", "mc", "multiplechoice"}
    THEN Ret([s EXCEPT !.question_type = "multiple-choice", !.next_question = None],
             [text |-> <<"I'll use multiple-choice questions for our review.">>,
              intent |-> "set_question_type"])
  ELSE IF question_type \in {"free-text", "free text", "open", "freetext"}
    THEN Ret([s EXCEPT !.question_type = "free-text", !.next_question = None],
             [text |-> <<"I'll use free-text questions for our review.">>,
              intent |-> "set_question_type"])
  ELSE Ret(s, [text |-> <<"I didn't understand that question type.">>,
               intent |-> "set_question_type"])

handle_set_question_type(s, data, env) ==
  LET question_type == Lower(IF "question_type" \in DOMAIN data THEN data.question_type ELSE "") IN
  IF question_type \in {"multiple-choice", "multiple choice", "mc", "multiplechoice"}
    THEN Ret([s EXCEPT !.question_type = "multiple-choice"],
             [text |-> <<"I'll use multiple-choice questions for our review.">>,
              intent |-> "set_question_type"])
  ELSE IF question_type \in {"free-text", "free text", "open", "freetext"}
    THEN Ret([s EXCEPT !.question_type = "free-text"],
             [text |-> <<"I'll use free-text questions for our review.">>,
              intent |-> "set_question_type"])
  ELSE Ret(s, [text |-> <<"I didn't understand that question type.">>,
               intent |-> "set_question_type"])

\* int(x): an int is itself, a string of digits is parsed, any other string
\* is a ValueError.  A value is [int |-> n] or [str |-> t].
DigitStrings == [t \in {"7"} |-> 7]
int(x) ==
  IF "int" \in DOMAIN x THEN [ok |-> TRUE, n |-> x.int]
  ELSE IF x.str \in DOMAIN DigitStrings THEN [ok |-> TRUE, n |-> DigitStrings[x.str]]
  ELSE [ok |-> FALSE, n |-> 0]

\* mutant: zero questions accepted
num_questions_in_range_from_zero(n) == 0 <= n /\ n <= MaxNumQuestions

\* handle_set_num_questions: 1 <= num_questions <= 50
num_questions_in_range(n) == MinNumQuestions <= n /\ n <= MaxNumQuestions

handle_set_num_questions(s, data, env) ==
  LET num_questions == int(IF "num_questions" \in DOMAIN data THEN data.num_questions
                                                              ELSE [int |-> 0]) IN
  IF num_questions.ok
    THEN IF num_questions_in_range(num_questions.n)
           THEN Ret([s EXCEPT !.num_questions = num_questions.n],
                    [text |-> <<"I'll prepare", ToString(num_questions.n), "questions for our review session.">>,
                     intent |-> "set_num_questions"])
           ELSE Ret(s, [text |-> <<"Please choose a number of questions between 1 and 50.">>,
                        intent |-> "set_num_questions"])
    ELSE Ret(s, [text |-> <<"I couldn't understand how many questions you want.">>,
                 intent |-> "set_num_questions"])

\* mutant: the extraction-failure flag is not looked at
handle_set_topic_unflagged(s, data, env) ==
  LET topics == IF "topics" \in DOMAIN data THEN data.topics ELSE <<>> IN
  IF topics = <<>>
    THEN Ret([s EXCEPT !.current_topics = <<>>],
             [text |-> <<"I'll cover all available topics in the documents during our review.">>,
              intent |-> "set_topic"])
  ELSE Ret([s EXCEPT !.current_topics = topics],
           [text |-> <<"I'll focus our review on:">> \o topics,
            intent |-> "set_topic"])

handle_set_topic(s, data, env) ==
  LET topics == IF "topics" \in DOMAIN data THEN data.topics ELSE <<>> IN
  IF "topic_extraction_failed" \in DOMAIN data /\ data.topic_extraction_failed
    THEN Ret(s, [text |-> <<"I couldn't clearly identify the topics you want to focus on.">>,
                 intent |-> "set_topic"])
  ELSE IF topics = <<>>
    THEN Ret([s EXCEPT !.current_topics = <<>>],
             [text |-> <<"I'll cover all available topics in the documents during our review.">>,
              intent |-> "set_topic"])
  ELSE Ret([s EXCEPT !.current_topics = topics],
           [text |-> <<"I'll focus our review on:">> \o topics,
            intent |-> "set_topic"])

handle_set_difficulty(s, data, env) ==
  LET difficulty == Lower(IF "difficulty" \in DOMAIN data THEN data.difficulty ELSE "") IN
  IF difficulty \in {"easy", "beginner", "simple"}
    THEN Ret([s EXCEPT !.difficulty = "easy"],
             [text |-> <<"I'll set the difficulty to easy for our review.">>,
              intent |-> "set_difficulty"])
  ELSE IF difficulty \in {"medium", "moderate", "intermediate"}
    THEN Ret([s EXCEPT !.difficulty = "medium"],
             [text |-> <<"I'll set the difficulty to medium for our review.">>,
              intent |-> "set_difficulty"])
  ELSE IF difficulty \in {"hard", "difficult", "challenging", "advanced"}
    THEN Ret([s EXCEPT !.difficulty = "hard"],
             [text |-> <<"I'll set the difficulty to hard for our review.">>,
              intent |-> "set_difficulty"])
  ELSE Ret(s, [text |-> <<"I didn't understand that difficulty level.">>,
               intent |-> "set_difficulty"])

handle_enable_speech(s, data, env) ==
  Ret([s EXCEPT !.speech_enabled = TRUE],
      [text |-> <<"Speech interaction is now enabled.">>, intent |-> "enable_speech"])

handle_disable_speech(s, data, env) ==
  Ret([s EXCEPT !.speech_enabled = FALSE],
      [text |-> <<"Speech interaction is now disabled.">>, intent |-> "disable_speech"])

handle_out_of_scope(s, data, env) ==
  Ret(s, [text |-> <<"I'm a study assistant focused on helping you review document contents.">>,
          intent |-> "out_of_scope"])

handle_unknown_intent(s, data, env) ==
  Ret(s, [text |-> <<"I'm not sure what you want to do.">>, intent |-> "unknown"])

\* the closed set of intent labels (intent_classifier.py priority_order)
IntentLabels ==
  {"document_upload", "start_review", "stop_review", "answer", "review_status",
   "review_settings", "set_question_type", "set_num_questions", "set_topic",
   "set_difficulty", "enable_speech", "disable_speech", "continue",
   "out_of_scope", "unknown"}

\* self.handlers.get(intent_type, self.handle_unknown_intent)(intent_data)
handlers(intent_type, s, data, env) ==
  CASE intent_type = "document_upload"   -> handle_document_upload(s, data, env)
    [] intent_type = "start_review"      -> handle_start_review(s, data, env)
    [] intent_type = "stop_review"       -> handle_stop_review(s, data, env)
    [] intent_type = "answer"            -> handle_answer(s, data, env)
    [] intent_type = "review_status"     -> handle_review_status(s, data, env)
    [] intent_type = "review_settings"   -> handle_review_settings(s, data, env)
    [] intent_type = "set_question_type" -> handle_set_question_type(s, data, env)
    [] intent_type = "set_num_questions" -> handle_set_num_questions(s, data, env)
    [] intent_type = "set_topic"         -> handle_set_topic(s, data, env)
    [] intent_type = "set_difficulty"    -> handle_set_difficulty(s, data, env)
    [] intent_type = "enable_speech"     -> handle_enable_speech(s, data, env)
    [] intent_type = "disable_speech"    -> handle_disable_speech(s, data, env)
    [] intent_type = "continue"          -> handle_continue(s, data, env)
    [] intent_type = "unknown"           -> handle_unknown_intent(s, data, env)
    [] OTHER                             -> handle_unknown_intent(s, data, env)

(* --------------------------- handle_intent ----------------------------- *)
\* d[k] = v on a copy of the dictionary d
SetKey(d, k, v) == [x \in DOMAIN d \cup {k} |-> IF x = k THEN v ELSE d[x]]

\* " ".join(texts): the texts separated by single spaces
RECURSIVE Join(_)
Join(texts) ==
  IF texts = <<>> THEN <<>>
  ELSE IF Len(texts) = 1 THEN texts[1]
  ELSE texts[1] \o <<" ">> \o Join(Tail(texts))

\* the first response of rs that satisfies Has, as a sequence of at most one
RECURSIVE FirstWith(_, _)
FirstWith(rs, key) ==
  IF rs = <<>> THEN <<>>
  ELSE IF key \in DOMAIN rs[1] THEN <<rs[1]>>
  ELSE FirstWith(Tail(rs), key)

\* mutant: the question of a start_review response gets no precedence
FirstStartReviewQuestion_none(rs) == <<>>

RECURSIVE FirstStartReviewQuestion(_)
FirstStartReviewQuestion(rs) ==
  IF rs = <<>> THEN <<>>
  ELSE IF "intent" \in DOMAIN rs[1] /\ rs[1].intent = "start_review"
          /\ "question" \in DOMAIN rs[1] THEN <<rs[1]>>
  ELSE FirstStartReviewQuestion(Tail(rs))

RECURSIVE TextsOf(_)
TextsOf(rs) ==
  IF rs = <<>> THEN <<>>
  ELSE (IF "text" \in DOMAIN rs[1] THEN <<rs[1].text>> ELSE <<>>) \o TextsOf(Tail(rs))

_combine_responses(rs) ==
  IF rs = <<>> THEN [text |-> <<"I'm not sure how to respond.">>]
  ELSE IF Len(rs) = 1 THEN rs[1]
  ELSE
    LET c1 == SetKey(rs[1], "text", Join(TextsOf(rs)))
        q  == FirstWith(rs, "question")
        c2 == IF q # <<>> THEN SetKey(c1, "question", q[1].question) ELSE c1
        m  == FirstWith(rs, "session_summary")
        c3 == IF m # <<>> THEN SetKey(c2, "session_summary", m[1].session_summary) ELSE c2
        sr == FirstStartReviewQuestion(rs)
    IN IF sr # <<>> THEN SetKey(c3, "question", sr[1].question) ELSE c3

\* the handlers of the primary intent and of the additional intents, run in
\* order on the same session; an exception ends the run
RECURSIVE RunHandlers(_, _, _, _)
RunHandlers(s, intents, envs, acc) ==
  IF intents = <<>> THEN [session |-> s, responses |-> acc, raised |-> FALSE]
  ELSE LET o == handlers(intents[1].intent, s, intents[1], envs[1]) IN
       IF o.raised THEN [session |-> o.session, responses |-> acc, raised |-> TRUE]
       ELSE RunHandlers(o.session, Tail(intents), Tail(envs), Append(acc, o.response))

\* handle_intent(intent_type, intent_data); envs[i] is the outcome of the
\* collaborator calls of the i-th handler
handle_intent(s, intent_data, envs) ==
  LET additional == IF "additional_intents" \in DOMAIN intent_data
                      THEN intent_data.additional_intents ELSE <<>>
      run == RunHandlers(s, <<intent_data>> \o additional, envs, <<>>)
  IN IF run.raised
       THEN [session |-> run.session, responses |-> run.responses,
             reply |-> None, raised |-> TRUE]
     \* self.tts_system is never assigned: reading it is an AttributeError
     ELSE IF run.session.speech_enabled
       THEN [session |-> run.session, responses |-> run.responses,
             reply |-> None, raised |-> TRUE]
     ELSE [session |-> run.session, responses |-> run.responses,
           reply |-> _combine_responses(run.responses), raised |-> FALSE]

\* simple replies that generate_assistant_response turns into continue /
\* stop_review while the session awaits feedback
AffirmativeReplies == {"ok"}
NegativeReplies == {"no"}

\* app.py generate_assistant_response: the intent handed to handle_intent
generate_assistant_response(s, intent_data) ==
  IF s.awaiting_feedback /\ intent_data.intent = "answer"
     /\ intent_data.text \in AffirmativeReplies
    THEN [intent |-> "continue"]
  ELSE IF s.awaiting_feedback /\ intent_data.intent = "answer"
     /\ intent_data.text \in NegativeReplies
    THEN [intent |-> "stop_review"]
  ELSE intent_data

(* ------------------------- inputs of the model ------------------------- *)
\* what the classifier hands over for a label (intent_classifier.py
\* _extract_intent_data), without the additional intents
DataFor(label) ==
  CASE label = "answer" ->
         {[intent |-> "answer", answer |-> a, text |-> a] :
            a \in Answers \cup AffirmativeReplies \cup NegativeReplies}
    [] label = "set_question_type" ->
         {[intent |-> label, text |-> "t"],
          [intent |-> label, text |-> "t", question_type |-> "free-text"]}
    [] label = "set_num_questions" ->
         {[intent |-> label, text |-> "t"]} \cup
         {[intent |-> label, text |-> "t", num_questions |-> [int |-> n]] : n \in {0, 1, 51}}
    [] label = "set_topic" ->
         {[intent |-> label, text |-> "t", topic_extraction_failed |-> TRUE],
          [intent |-> label, text |-> "t", topics |-> <<"t1">>]}
    [] label = "set_difficulty" ->
         {[intent |-> label, text |-> "t"],
          [intent |-> label, text |-> "t", difficulty |-> "hard"]}
    [] OTHER -> {[intent |-> label, text |-> "t"]}

\* intents that ride along as additional intents
AdditionalMenu == DataFor("start_review") \cup DataFor("continue")

RECURSIVE SeqsUpTo(_, _)
SeqsUpTo(S, n) ==
  IF n = 0 THEN {<<>>}
  ELSE LET shorter == SeqsUpTo(S, n - 1) IN
       shorter \cup {Append(q, x) : q \in shorter, x \in S}

\* the collaborator outcomes that matter to the handler of a label
EnvsFor(label) ==
  CASE label = "answer"       -> Envs
    [] label = "start_review" -> {e \in Envs : e.ev = "correct"}
    [] OTHER                  -> {[gen |-> "q1", ev |-> "correct"]}

RECURSIVE EnvSeqs(_)
EnvSeqs(intents) ==
  IF intents = <<>> THEN {<<>>}
  ELSE {<<e>> \o rest : e \in EnvsFor(intents[1].intent), rest \in EnvSeqs(Tail(intents))}

RECURSIVE NumAnswers(_)
NumAnswers(intents) ==
  IF intents = <<>> THEN 0
  ELSE (IF intents[1].intent = "answer" THEN 1 ELSE 0) + NumAnswers(Tail(intents))

(* ------------------------------ actions -------------------------------- *)
Init ==
  /\ session = SessionState
  /\ responses = <<>>
  /\ reply = None
  /\ raised = FALSE
  /\ question_generator \in BOOLEAN
  /\ answer_evaluator \in BOOLEAN
  \* app.py initialize_systems passes a document processor; only
  \* handle_document_upload reads it
  /\ document_processor = TRUE
  \* nothing has been said yet
  /\ utterance = None
  /\ classification = None
  \* no helper of the classifier has been called on its own
  /\ arguments = None
  /\ returned = None

\* one utterance, classified as d with the additional intents adds, goes
\* through generate_assistant_response and handle_intent: the outcomes of
\* handle_intent, one for each outcome of the collaborator calls
Outcomes(s, d, adds) ==
  LET classified == [x \in DOMAIN d \cup {"additional_intents"} |->
                       IF x = "additional_intents" THEN adds ELSE d[x]]
      intent_data == generate_assistant_response(s, classified)
      additional == IF "additional_intents" \in DOMAIN intent_data
                      THEN intent_data.additional_intents ELSE <<>>
      intents == <<intent_data>> \o additional
  IN IF /\ s.total_answered + NumAnswers(intents) <= MaxAnswered
        \* a bare "ok" or "no" is said when asked whether to continue;
        \* anywhere else it is an answer like any other
        /\ d.text \in AffirmativeReplies \cup NegativeReplies => s.awaiting_feedback
       THEN {handle_intent(s, intent_data, envs) : envs \in EnvSeqs(intents)}
       ELSE {}

Additionals == SeqsUpTo(AdditionalMenu, MaxAdditional)

StartReview ==
  \E d \in DataFor("start_review"), adds \in Additionals :
    \E o \in Outcomes(session, d, adds) :
      /\ session' = o.session
      /\ responses' = o.responses
      /\ reply' = o.reply
      /\ raised' = o.raised
      /\ UNCHANGED <<question_generator, answer_evaluator, document_processor,
                     utterance, classification, arguments, returned>>

StopReview ==
  \E d \in DataFor("stop_review"), adds \in Additionals :
    \E o \in Outcomes(session, d, adds) :
      /\ session' = o.session
      /\ responses' = o.responses
      /\ reply' = o.reply
      /\ raised' = o.raised
      /\ UNCHANGED <<question_generator, answer_evaluator, document_processor,
                     utterance, classification, arguments, returned>>

Answer ==
  \E d \in DataFor("answer"), adds \in Additionals :
    \E o \in Outcomes(session, d, adds) :
      /\ session' = o.session
      /\ responses' = o.responses
      /\ reply' = o.reply
      /\ raised' = o.raised
      /\ UNCHANGED <<question_generator, answer_evaluator, document_processor,
                     utterance, classification, arguments, returned>>

Continue ==
  \E d \in DataFor("continue"), adds \in Additionals :
    \E o \in Outcomes(session, d, adds) :
      /\ session' = o.session
      /\ responses' = o.responses
      /\ reply' = o.reply
      /\ raised' = o.raised
      /\ UNCHANGED <<question_generator, answer_evaluator, document_processor,
                     utterance, classification, arguments, returned>>

SetNumQuestions ==
  \E d \in DataFor("set_num_questions"), adds \in Additionals :
    \E o \in Outcomes(session, d, adds) :
      /\ session' = o.session
      /\ responses' = o.responses
      /\ reply' = o.reply
      /\ raised' = o.raised
      /\ UNCHANGED <<question_generator, answer_evaluator, document_processor,
                     utterance, classification, arguments, returned>>

\* app.py process_uploaded_file: the document pipeline reports success
ProcessUploadedFile ==
  /\ session' = [session EXCEPT !.documents_loaded = TRUE]
  /\ UNCHANGED <<responses, reply, raised,
                 question_generator, answer_evaluator, document_processor,
                 utterance, classification, arguments, returned>>

Next ==
  \/ StartReview \/ StopReview \/ Answer \/ Continue \/ SetNumQuestions
  \/ ProcessUploadedFile

Spec == Init /\ [][Next]_vars

(* ------------------ every intent of the closed set --------------------- *)
\* answers evaluated in a conversation that uses every intent
MaxAnsweredAlone == 1

\* collaborators that answer: one question text, either verdict
AloneEnvs == {e \in NoFailEnvs : e.gen = "q1"}

\* one utterance classified as d, with no additional intent, goes through
\* generate_assistant_response and handle_intent
OutcomesAlone(s, d) ==
  LET intent_data == generate_assistant_response(s, d)
  IN IF /\ s.total_answered + NumAnswers(<<intent_data>>) <= MaxAnsweredAlone
        /\ d.text \in AffirmativeReplies \cup NegativeReplies => s.awaiting_feedback
       THEN {handle_intent(s, intent_data, <<e>>) : e \in AloneEnvs \cap EnvsFor(intent_data.intent)}
       ELSE {}

StartReviewAlone ==
  \E d \in DataFor("start_review") :
    \E o \in OutcomesAlone(session, d) :
      /\ session' = o.session
      /\ responses' = o.responses
      /\ reply' = o.reply
      /\ raised' = o.raised
      /\ UNCHANGED <<question_generator, answer_evaluator, document_processor,
                     utterance, classification, arguments, returned>>

StopReviewAlone ==
  \E d \in DataFor("stop_review") :
    \E o \in OutcomesAlone(session, d) :
      /\ session' = o.session
      /\ responses' = o.responses
      /\ reply' = o.reply
      /\ raised' = o.raised
      /\ UNCHANGED <<question_generator, answer_evaluator, document_processor,
                     utterance, classification, arguments, returned>>

AnswerAlone ==
  \E d \in DataFor("answer") :
    \E o \in OutcomesAlone(session, d) :
      /\ session' = o.session
      /\ responses' = o.responses
      /\ reply' = o.reply
      /\ raised' = o.raised
      /\ UNCHANGED <<question_generator, answer_evaluator, document_processor,
                     utterance, classification, arguments, returned>>

ContinueAlone ==
  \E d \in DataFor("continue") :
    \E o \in OutcomesAlone(session, d) :
      /\ session' = o.session
      /\ responses' = o.responses
      /\ reply' = o.reply
      /\ raised' = o.raised
      /\ UNCHANGED <<question_generator, answer_evaluator, document_processor,
                     utterance, classification, arguments, returned>>

SetNumQuestionsAlone ==
  \E d \in DataFor("set_num_questions") :
    \E o \in OutcomesAlone(session, d) :
      /\ session' = o.session
      /\ responses' = o.responses
      /\ reply' = o.reply
      /\ raised' = o.raised
      /\ UNCHANGED <<question_generator, answer_evaluator, document_processor,
                     utterance, classification, arguments, returned>>

SetQuestionType ==
  \E d \in DataFor("set_question_type") :
    \E o \in OutcomesAlone(session, d) :
      /\ session' = o.session
      /\ responses' = o.responses
      /\ reply' = o.reply
      /\ raised' = o.raised
      /\ UNCHANGED <<question_generator, answer_evaluator, document_processor,
                     utterance, classification, arguments, returned>>

SetTopic ==
  \E d \in DataFor("set_topic") :
    \E o \in OutcomesAlone(session, d) :
      /\ session' = o.session
      /\ responses' = o.responses
      /\ reply' = o.reply
      /\ raised' = o.raised
      /\ UNCHANGED <<question_generator, answer_evaluator, document_processor,
                     utterance, classification, arguments, returned>>

SetDifficulty ==
  \E d \in DataFor("set_difficulty") :
    \E o \in OutcomesAlone(session, d) :
      /\ session' = o.session
      /\ responses' = o.responses
      /\ reply' = o.reply
      /\ raised' = o.raised
      /\ UNCHANGED <<question_generator, answer_evaluator, document_processor,
                     utterance, classification, arguments, returned>>

EnableSpeech ==
  \E d \in DataFor("enable_speech") :
    \E o \in OutcomesAlone(session, d) :
      /\ session' = o.session
      /\ responses' = o.responses
      /\ reply' = o.reply
      /\ raised' = o.raised
      /\ UNCHANGED <<question_generator, answer_evaluator, document_processor,
                     utterance, classification, arguments, returned>>

DisableSpeech ==
  \E d \in DataFor("disable_speech") :
    \E o \in OutcomesAlone(session, d) :
      /\ session' = o.session
      /\ responses' = o.responses
      /\ reply' = o.reply
      /\ raised' = o.raised
      /\ UNCHANGED <<question_generator, answer_evaluator, document_processor,
                     utterance, classification, arguments, returned>>

ReviewStatus ==
  \E d \in DataFor("review_status") :
    \E o \in OutcomesAlone(session, d) :
      /\ session' = o.session
      /\ responses' = o.responses
      /\ reply' = o.reply
      /\ raised' = o.raised
      /\ UNCHANGED <<question_generator, answer_evaluator, document_processor,
                     utterance, classification, arguments, returned>>

ReviewSettings ==
  \E d \in DataFor("review_settings") :
    \E o \in OutcomesAlone(session, d) :
      /\ session' = o.session
      /\ responses' = o.responses
      /\ reply' = o.reply
      /\ raised' = o.raised
      /\ UNCHANGED <<question_generator, answer_evaluator, document_processor,
                     utterance, classification, arguments, returned>>

DocumentUpload ==
  \E d \in DataFor("document_upload") :
    \E o \in OutcomesAlone(session, d) :
      /\ session' = o.session
      /\ responses' = o.responses
      /\ reply' = o.reply
      /\ raised' = o.raised
      /\ UNCHANGED <<question_generator, answer_evaluator, document_processor,
                     utterance, classification, arguments, returned>>

OutOfScope ==
  \E d \in DataFor("out_of_scope") :
    \E o \in OutcomesAlone(session, d) :
      /\ session' = o.session
      /\ responses' = o.responses
      /\ reply' = o.reply
      /\ raised' = o.raised
      /\ UNCHANGED <<question_generator, answer_evaluator, document_processor,
                     utterance, classification, arguments, returned>>

Unknown ==
  \E d \in DataFor("unknown") :
    \E o \in OutcomesAlone(session, d) :
      /\ session' = o.session
      /\ responses' = o.responses
      /\ reply' = o.reply
      /\ raised' = o.raised
      /\ UNCHANGED <<question_generator, answer_evaluator, document_processor,
                     utterance, classification, arguments, returned>>

\* the manager as app.py builds it: every collaborator is there
InitIntents ==
  /\ Init
  /\ question_generator
  /\ answer_evaluator

NextIntents ==
  \/ StartReviewAlone \/ StopReviewAlone \/ AnswerAlone \/ ContinueAlone
  \/ SetNumQuestionsAlone \/ SetQuestionType \/ SetTopic \/ SetDifficulty
  \/ EnableSpeech \/ DisableSpeech
  \/ ReviewStatus \/ ReviewSettings \/ DocumentUpload
  \/ OutOfScope \/ Unknown
  \/ ProcessUploadedFile

SpecIntents == InitIntents /\ [][NextIntents]_vars

(* --------------------------- the classifier ---------------------------- *)
\* phrases of one utterance
MaxPhrases == 3

\* The sentences utterances are made of.  An utterance is a sequence of
\* these, written one after the other with ". " between them, which
\* _split_into_sentences returns one by one.  For each sentence the table
\* records what the regular expressions of intent_classifier.py find in it:
\*   num       the number _check_num_questions finds and the place of the
\*             pattern that finds it in its list
\*   compound  the settings _check_compound_settings finds, with their values
\*   counts    for each intent with a matching pattern in self.patterns, the
\*             number of its patterns that match (_match_intent)
\*   data      for each of those intents, the field _extract_intent_data adds
\*   context, related, oos_keyword   what _determine_context counts
\*   oos_head, oos_tail   characters after the last question word and before
\*             the first out-of-scope subject (-1: there is none), for the
\*             out_of_scope pattern that spans up to 30 characters
\*   unknown_alone   an unknown pattern matches the sentence as a whole message
PhraseTable ==
  <<
   [text |-> "set difficulty to hard",
    length |-> 22,
    num |-> None,
    compound |-> [set_difficulty |-> "hard"],
    counts |-> [set_difficulty |-> 2],
    data |-> [set_difficulty |-> [key |-> "difficulty", value |-> "hard"]],
    context |-> [review |-> 2, speech |-> 0, document |-> 0, settings |-> 0],
    related |-> {"settings"},
    oos_keyword |-> FALSE,
    oos_head |-> -1,
    oos_tail |-> -1,
    unknown_alone |-> FALSE],
   [text |-> "set question type to free text",
    length |-> 30,
    num |-> None,
    compound |-> [set_question_type |-> "free-text"],
    counts |-> [set_question_type |-> 2],
    data |-> [set_question_type |-> [key |-> "question_type", value |-> "free-text"]],
    context |-> [review |-> 2, speech |-> 0, document |-> 2, settings |-> 0],
    related |-> {"review", "settings"},
    oos_keyword |-> FALSE,
    oos_head |-> -1,
    oos_tail |-> -1,
    unknown_alone |-> FALSE],
   [text |-> "give me 3 questions",
    length |-> 19,
    num |-> [n |-> 3, pattern |-> 1],
    compound |-> [set_num_questions |-> [int |-> 3]],
    counts |-> [set_num_questions |-> 2],
    data |-> [set_num_questions |-> [key |-> "num_questions", value |-> [int |-> 3]]],
    context |-> [review |-> 0, speech |-> 0, document |-> 0, settings |-> 0],
    related |-> {},
    oos_keyword |-> FALSE,
    oos_head |-> -1,
    oos_tail |-> -1,
    unknown_alone |-> FALSE],
   [text |-> "set topic to math",
    length |-> 17,
    num |-> None,
    compound |-> [set_topic |-> <<"math">>],
    counts |-> [set_topic |-> 2],
    data |-> [set_topic |-> [key |-> "topics", value |-> <<"math">>]],
    context |-> [review |-> 0, speech |-> 0, document |-> 0, settings |-> 0],
    related |-> {"settings"},
    oos_keyword |-> FALSE,
    oos_head |-> -1,
    oos_tail |-> -1,
    unknown_alone |-> FALSE],
   [text |-> "start the review",
    length |-> 16,
    num |-> None,
    compound |-> <<>>,
    counts |-> [start_review |-> 1],
    data |-> [start_review |-> None],
    context |-> [review |-> 2, speech |-> 0, document |-> 0, settings |-> 0],
    related |-> {},
    oos_keyword |-> FALSE,
    oos_head |-> -1,
    oos_tail |-> -1,
    unknown_alone |-> FALSE],
   [text |-> "hello there",
    length |-> 11,
    num |-> None,
    compound |-> <<>>,
    counts |-> <<>>,
    data |-> <<>>,
    context |-> [review |-> 0, speech |-> 0, document |-> 0, settings |-> 0],
    related |-> {},
    oos_keyword |-> FALSE,
    oos_head |-> -1,
    oos_tail |-> -1,
    unknown_alone |-> FALSE],
   [text |-> "10 q",
    length |-> 4,
    num |-> [n |-> 10, pattern |-> 2],
    compound |-> <<>>,
    counts |-> <<>>,
    data |-> <<>>,
    context |-> [review |-> 0, speech |-> 0, document |-> 0, settings |-> 0],
    related |-> {},
    oos_keyword |-> FALSE,
    oos_head |-> -1,
    oos_tail |-> -1,
    unknown_alone |-> FALSE],
   [text |-> "make it hard",
    length |-> 12,
    num |-> None,
    compound |-> <<>>,
    counts |-> [set_difficulty |-> 1],
    data |-> [set_difficulty |-> [key |-> "difficulty", value |-> "hard"]],
    context |-> [review |-> 0, speech |-> 0, document |-> 0, settings |-> 0],
    related |-> {},
    oos_keyword |-> FALSE,
    oos_head |-> -1,
    oos_tail |-> -1,
    unknown_alone |-> FALSE],
   [text |-> "so what",
    length |-> 7,
    num |-> None,
    compound |-> <<>>,
    counts |-> <<>>,
    data |-> <<>>,
    context |-> [review |-> 0, speech |-> 0, document |-> 0, settings |-> 0],
    related |-> {},
    oos_keyword |-> FALSE,
    oos_head |-> 0,
    oos_tail |-> -1,
    unknown_alone |-> FALSE],
   [text |-> "weather",
    length |-> 7,
    num |-> None,
    compound |-> <<>>,
    counts |-> <<>>,
    data |-> <<>>,
    context |-> [review |-> 0, speech |-> 0, document |-> 0, settings |-> 0],
    related |-> {},
    oos_keyword |-> TRUE,
    oos_head |-> -1,
    oos_tail |-> 0,
    unknown_alone |-> FALSE],
   [text |-> "enable speech recognition",
    length |-> 25,
    num |-> None,
    compound |-> <<>>,
    counts |-> [enable_speech |-> 1],
    data |-> [enable_speech |-> None],
    context |-> [review |-> 0, speech |-> 4, document |-> 0, settings |-> 0],
    related |-> {},
    oos_keyword |-> FALSE,
    oos_head |-> -1,
    oos_tail |-> -1,
    unknown_alone |-> FALSE],
   [text |-> "help",
    length |-> 4,
    num |-> None,
    compound |-> <<>>,
    counts |-> [unknown |-> 1],
    data |-> [unknown |-> None],
    context |-> [review |-> 0, speech |-> 0, document |-> 0, settings |-> 0],
    related |-> {},
    oos_keyword |-> FALSE,
    oos_head |-> -1,
    oos_tail |-> -1,
    unknown_alone |-> TRUE],
   [text |-> "start the review with 10 questions and hard difficulty",
    length |-> 54,
    num |-> [n |-> 10, pattern |-> 1],
    compound |-> [set_num_questions |-> [int |-> 10]],
    counts |-> [start_review |-> 1, set_num_questions |-> 1, set_difficulty |-> 1],
    data |-> [start_review |-> None, set_num_questions |-> [key |-> "num_questions", value |-> [int |-> 10]], set_difficulty |-> [key |-> "difficulty", value |-> "hard"]],
    context |-> [review |-> 4, speech |-> 0, document |-> 0, settings |-> 0],
    related |-> {},
    oos_keyword |-> FALSE,
    oos_head |-> -1,
    oos_tail |-> -1,
    unknown_alone |-> FALSE],
   [text |-> "use the voice mode and begin the quiz",
    length |-> 37,
    num |-> None,
    compound |-> <<>>,
    counts |-> [start_review |-> 1, enable_speech |-> 1],
    data |-> [start_review |-> None, enable_speech |-> None],
    context |-> [review |-> 2, speech |-> 2, document |-> 0, settings |-> 0],
    related |-> {"review"},
    oos_keyword |-> FALSE,
    oos_head |-> -1,
    oos_tail |-> -1,
    unknown_alone |-> FALSE],
   [text |-> "the topic should be math",
    length |-> 24,
    num |-> None,
    compound |-> <<>>,
    counts |-> [set_topic |-> 1],
    data |-> [set_topic |-> [key |-> "topic_extraction_failed", value |-> TRUE]],
    context |-> [review |-> 0, speech |-> 0, document |-> 0, settings |-> 0],
    related |-> {},
    oos_keyword |-> FALSE,
    oos_head |-> -1,
    oos_tail |-> -1,
    unknown_alone |-> FALSE],
   [text |-> "what is the weather",
    length |-> 19,
    num |-> None,
    compound |-> <<>>,
    counts |-> [out_of_scope |-> 1, unknown |-> 1],
    data |-> [out_of_scope |-> None, unknown |-> None],
    context |-> [review |-> 0, speech |-> 0, document |-> 0, settings |-> 0],
    related |-> {},
    oos_keyword |-> TRUE,
    oos_head |-> 15,
    oos_tail |-> 12,
    unknown_alone |-> TRUE]
  >>

PhraseTexts == {PhraseTable[i].text : i \in 1..Len(PhraseTable)}
\* a local variable: value is computed once and In reads it
With(value, In(_)) == In(value)

Phrase(text) ==
  With(PhraseTable, LAMBDA table : table[CHOOSE i \in 1..Len(table) : table[i].text = text])

\* the utterances: one to MaxPhrases sentences, and the empty string
Utterances == SeqsUpTo(PhraseTexts, MaxPhrases)

\* the keys of self.patterns, in insertion order
PatternOrder ==
  <<"document_upload", "start_review", "stop_review", "review_status",
    "review_settings", "set_question_type", "set_num_questions", "set_topic",
    "set_difficulty", "enable_speech", "disable_speech", "continue",
    "out_of_scope", "unknown">>

\* priority_order of the clause path, and .get(x, 99)
priority_order ==
  [l \in IntentLabels |->
     CASE l \in {"set_difficulty", "set_question_type", "set_num_questions", "set_topic"} -> 1
       [] l \in {"enable_speech", "disable_speech"} -> 2
       [] l \in {"start_review", "stop_review", "document_upload", "continue"} -> 3
       [] l \in {"review_status", "review_settings"} -> 4
       [] l = "answer" -> 5
       [] l = "unknown" -> 6
       [] l = "out_of_scope" -> 7]

\* priority_order of the compound-settings path
compound_priority_order ==
  [l \in IntentLabels |->
     CASE l = "set_difficulty" -> 1
       [] l = "set_question_type" -> 2
       [] l = "set_num_questions" -> 3
       [] l = "set_topic" -> 4
       [] OTHER -> 99]

\* sorted(seq, key=...): a stable sort
RECURSIVE sorted(_, _)
sorted(seq, key) ==
  IF seq = <<>> THEN <<>>
  ELSE LET x == seq[Len(seq)]
           rest == sorted(SubSeq(seq, 1, Len(seq) - 1), key)
       IN SelectSeq(rest, LAMBDA y : key[y] <= key[x]) \o <<x>>
          \o SelectSeq(rest, LAMBDA y : key[y] > key[x])

_split_into_sentences(text) == [i \in 1..Len(text) |-> Phrase(text[i])]

\* the first pattern of the list that matches decides; a pattern matches at its
\* leftmost place
_check_num_questions(text) ==
  With(_split_into_sentences(text), LAMBDA sentences :
  LET hits == {i \in 1..Len(sentences) : sentences[i].num # None}
  IN IF hits = {} THEN None
     ELSE LET first == CHOOSE i \in hits : \A j \in hits :
                         \/ sentences[i].num.pattern < sentences[j].num.pattern
                         \/ /\ sentences[i].num.pattern = sentences[j].num.pattern
                            /\ i <= j
          IN [int |-> sentences[first].num.n])

\* the field of the payload of each setting
PayloadKey(intent) ==
  CASE intent = "set_difficulty"    -> "difficulty"
    [] intent = "set_question_type" -> "question_type"
    [] intent = "set_num_questions" -> "num_questions"
    [] intent = "set_topic"         -> "topics"

\* the topic scan takes up to 30 characters after the marker: a topic that is
\* not at the end of the utterance comes with the text that follows it
TopicWithWhatFollows(topics) == <<"math. ...">>

\* the settings found in the whole utterance, in the order of the four scans
_check_compound_settings(text) ==
  With(_split_into_sentences(text), LAMBDA sentences :
  LET Found(intent) == {i \in 1..Len(sentences) : intent \in DOMAIN sentences[i].compound}
      Setting(intent) ==
        LET i == CHOOSE i \in Found(intent) : \A j \in Found(intent) : i <= j
            value == sentences[i].compound[intent]
        IN SetKey([intent |-> intent, text |-> text], PayloadKey(intent),
                  IF intent = "set_topic" /\ i < Len(sentences)
                    THEN TopicWithWhatFollows(value) ELSE value)
      scans == <<"set_difficulty", "set_question_type", "set_num_questions", "set_topic">>
      found == SelectSeq(scans, LAMBDA intent : Found(intent) # {})
  IN [k \in 1..Len(found) |-> Setting(found[k])])

_determine_context(text) ==
  With(_split_into_sentences(text), LAMBDA sentences :
  LET RECURSIVE Direct(_, _)
      Direct(i, context_type) ==
        IF i = 0 THEN 0 ELSE sentences[i].context[context_type] + Direct(i - 1, context_type)
      penalty == IF \E i \in 1..Len(sentences) : sentences[i].oos_keyword THEN 1 ELSE 0
  IN [context_type \in {"review", "speech", "document", "settings"} |->
        Direct(Len(sentences), context_type)
        + (IF \E i \in 1..Len(sentences) : context_type \in sentences[i].related THEN 1 ELSE 0)
        - penalty])

\* max(items, key=...): the first of the largest, in insertion order
FirstMax(order, score) ==
  LET i == CHOOSE i \in 1..Len(order) :
             /\ \A j \in 1..Len(order) : score[order[j]] <= score[order[i]]
             /\ \A j \in 1..(i - 1) : score[order[j]] < score[order[i]]
  IN order[i]

dominant_context(text) ==
  FirstMax(<<"review", "speech", "document", "settings">>, _determine_context(text))

\* None where an intent label is expected
NoIntent == "None"

_match_intent(sentence, dominant) ==
  LET all == DOMAIN sentence.counts
      matched_intents ==
        IF Cardinality(all) > 1 /\ {"start_review", "enable_speech"} \subseteq all
          THEN IF dominant = "speech" THEN all \ {"start_review"}
               ELSE IF dominant = "review" THEN all \ {"enable_speech"}
               ELSE all
          ELSE all
  IN IF matched_intents = {} THEN NoIntent
     ELSE FirstMax(SelectSeq(PatternOrder, LAMBDA intent : intent \in matched_intents),
                   sentence.counts)

_extract_intent_data(sentence, intent) ==
  LET result == [intent |-> intent, text |-> sentence.text]
      field == IF intent \in DOMAIN sentence.data THEN sentence.data[intent] ELSE None
  IN IF intent = "answer" THEN SetKey(result, "answer", sentence.text)
     ELSE IF field = None THEN result
     ELSE SetKey(result, field.key, field.value)

\* the intents of the sequence acc
IntentsOf(acc) == {acc[i].intent : i \in 1..Len(acc)}

\* sentence by sentence, intent by intent in the order of self.patterns: every
\* intent with a matching pattern that is not excluded and not yet found
RECURSIVE _find_other_intents_from(_, _, _, _, _)
_find_other_intents_from(sentences, i, k, excluded, other_intents) ==
  IF i > Len(sentences) THEN other_intents
  ELSE IF k > Len(PatternOrder)
    THEN _find_other_intents_from(sentences, i + 1, 1, excluded, other_intents)
  ELSE LET intent == PatternOrder[k] IN
       IF /\ intent \notin excluded
          /\ intent \in DOMAIN sentences[i].counts
          /\ intent \notin IntentsOf(other_intents)
         THEN _find_other_intents_from(sentences, i, k + 1, excluded,
                Append(other_intents, _extract_intent_data(sentences[i], intent)))
         ELSE _find_other_intents_from(sentences, i, k + 1, excluded, other_intents)

_find_other_intents(text, excluded) ==
  _find_other_intents_from(_split_into_sentences(text), 1, 1, excluded, <<>>)

\* patterns["out_of_scope"] on the whole utterance: a sentence matches, or a
\* question word and a subject at most 30 characters apart in two sentences
out_of_scope_matches(text) ==
  With(_split_into_sentences(text), LAMBDA sentences :
  LET RECURSIVE Between(_, _)
      Between(i, j) == IF i + 1 >= j THEN 0 ELSE sentences[i + 1].length + 2 + Between(i + 1, j)
  IN \/ \E i \in 1..Len(sentences) : "out_of_scope" \in DOMAIN sentences[i].counts
     \/ \E i, j \in 1..Len(sentences) :
          /\ i < j
          /\ sentences[i].oos_head >= 0
          /\ sentences[j].oos_tail >= 0
          /\ sentences[i].oos_head + 2 + Between(i, j) + sentences[j].oos_tail <= 30)

\* patterns["unknown"] on the whole utterance: they are anchored at both ends
unknown_matches(text) ==
  With(_split_into_sentences(text), LAMBDA sentences :
    Len(sentences) = 1 /\ sentences[1].unknown_alone)

\* update(): the keys of d2 over those of d1
Update(d1, d2) == [k \in DOMAIN d1 \cup DOMAIN d2 |-> IF k \in DOMAIN d2 THEN d2[k] ELSE d1[k]]

\* the first sentence that matched intent (sentence_intent_map)
FirstMatching(sentences, dominant, intent) ==
  sentences[CHOOSE i \in 1..Len(sentences) :
              /\ _match_intent(sentences[i], dominant) = intent
              /\ \A j \in 1..(i - 1) : _match_intent(sentences[j], dominant) # intent]

\* classify, when no sentence matched an intent: the two detectors on the
\* whole utterance, then the answer
no_detected_intents_as_unknown(text, result) ==
  IF out_of_scope_matches(text)
    THEN [intent |-> "out_of_scope", text |-> text, additional_intents |-> <<>>]
  ELSE [intent |-> "unknown", text |-> text, additional_intents |-> <<>>]

no_detected_intents(text, result) ==
  IF out_of_scope_matches(text)
    THEN [intent |-> "out_of_scope", text |-> text, additional_intents |-> <<>>]
  ELSE IF unknown_matches(text)
    THEN [intent |-> "unknown", text |-> text, additional_intents |-> <<>>]
  ELSE result

classify(text) ==
  LET result == [intent |-> "answer", answer |-> text, text |-> text,
                 additional_intents |-> <<>>]
      num_questions_match == _check_num_questions(text)
      compound_settings == _check_compound_settings(text)
  IN IF num_questions_match # None
       THEN [intent |-> "set_num_questions", num_questions |-> num_questions_match,
             text |-> text,
             additional_intents |-> _find_other_intents(text, {"set_num_questions"})]
     ELSE IF Len(compound_settings) > 1
       THEN LET intents == [k \in 1..Len(compound_settings) |-> compound_settings[k].intent]
                sorted_labels == sorted(intents, compound_priority_order)
                Of(label) == compound_settings[CHOOSE k \in 1..Len(intents) : intents[k] = label]
                sorted_intents == [k \in 1..Len(sorted_labels) |-> Of(sorted_labels[k])]
            IN SetKey(sorted_intents[1], "additional_intents",
                      Tail(sorted_intents)
                      \o _find_other_intents(text, {intents[k] : k \in 1..Len(intents)}))
     ELSE
       LET sentences == _split_into_sentences(text)
           dominant == dominant_context(text)
           matches == [i \in 1..Len(sentences) |-> _match_intent(sentences[i], dominant)]
           detected_intents == SelectSeq(matches, LAMBDA m : m # NoIntent)
       IN IF detected_intents = <<>>
            THEN no_detected_intents(text, result)
            ELSE LET sorted_intents == sorted(detected_intents, priority_order)
                     primary_intent == sorted_intents[1]
                     primary_data == _extract_intent_data(
                                       FirstMatching(sentences, dominant, primary_intent),
                                       primary_intent)
                     others == SelectSeq(Tail(sorted_intents), LAMBDA intent : intent # primary_intent)
                     additional_intents ==
                       [k \in 1..Len(others) |->
                          _extract_intent_data(FirstMatching(sentences, dominant, others[k]),
                                               others[k])]
                 IN SetKey(Update(result, primary_data), "additional_intents", additional_intents)

\* an utterance is handed to the classifier
InitClassify ==
  /\ session = SessionState
  /\ responses = <<>>
  /\ reply = None
  /\ raised = FALSE
  /\ question_generator = TRUE
  /\ answer_evaluator = TRUE
  /\ document_processor = TRUE
  /\ utterance \in Utterances
  /\ classification = None
  /\ arguments = None
  /\ returned = None

Classify ==
  /\ classification = None
  /\ classification' = classify(utterance)
  /\ UNCHANGED <<session, responses, reply, raised, question_generator,
                 answer_evaluator, document_processor, utterance,
                 arguments, returned>>

SpecClassify == InitClassify /\ [][Classify]_vars

(* ------------------------- a whole conversation ------------------------ *)
\* app.py main: each utterance is classified, passed through
\* generate_assistant_response and handed to handle_intent
MaxSaid == 3
ConversePhrases ==
  {"set difficulty to hard", "give me 3 questions", "set topic to math", "start the review",
   "start the review with 10 questions and hard difficulty"}
ConverseUtterances == SeqsUpTo(ConversePhrases, MaxSaid) \ {<<>>}

\* the collaborators answer every call of the conversation
ConverseEnvs(intents) == [i \in 1..Len(intents) |-> [gen |-> "q1", ev |-> "correct"]]

Say ==
  \E u \in ConverseUtterances :
    \E intent_data \in {classify(u)} :
      \E o \in {handle_intent(session, generate_assistant_response(session, intent_data),
                              ConverseEnvs(<<intent_data>> \o intent_data.additional_intents))} :
        /\ utterance' = u
        /\ classification' = intent_data
        /\ session' = o.session
        /\ responses' = o.responses
        /\ reply' = o.reply
        /\ raised' = o.raised
        /\ UNCHANGED <<question_generator, answer_evaluator, document_processor,
                       arguments, returned>>

NextConverse == Say \/ ProcessUploadedFile

SpecConverse == InitIntents /\ [][NextConverse]_vars

(* -------------------- the helpers of the classifier -------------------- *)
\* longest number word handed to _word_to_number, in tokens
MaxWordTokens == 3

\* a word is a sequence of tokens: number words, other words, a hyphen, a blank
WordTokens == {"zero", "five", "ten", "twenty", "thirty", "hundred", "Twenty", "-", " "}
Words == SeqsUpTo(WordTokens, MaxWordTokens)

\* word.lower()
lower(word) == [i \in 1..Len(word) |-> IF word[i] = "Twenty" THEN "twenty" ELSE word[i]]

\* word.strip()
RECURSIVE strip(_)
strip(word) ==
  IF word = <<>> THEN word
  ELSE IF Head(word) = " " THEN strip(Tail(word))
  ELSE IF word[Len(word)] = " " THEN strip(SubSeq(word, 1, Len(word) - 1))
  ELSE word

\* word.split(sep): the parts between the separators, empty ones included
RECURSIVE split(_, _)
split(word, sep) ==
  IF \A i \in 1..Len(word) : word[i] # sep THEN <<word>>
  ELSE LET i == CHOOSE i \in 1..Len(word) :
                  word[i] = sep /\ \A j \in 1..(i - 1) : word[j] # sep
       IN <<SubSeq(word, 1, i - 1)>> \o split(SubSeq(word, i + 1, Len(word)), sep)

\* word.split(): the parts between runs of blanks
split_whitespace(word) == SelectSeq(split(word, " "), LAMBDA part : part # <<>>)

\* the dictionary of basic number words
number_words ==
  [zero |-> 0, one |-> 1, two |-> 2, three |-> 3, four |-> 4, five |-> 5,
   six |-> 6, seven |-> 7, eight |-> 8, nine |-> 9, ten |-> 10,
   eleven |-> 11, twelve |-> 12, thirteen |-> 13, fourteen |-> 14, fifteen |-> 15,
   sixteen |-> 16, seventeen |-> 17, eighteen |-> 18, nineteen |-> 19, twenty |-> 20,
   thirty |-> 30, forty |-> 40, fifty |-> 50, sixty |-> 60, seventy |-> 70,
   eighty |-> 80, ninety |-> 90]

TensWords == {"twenty", "thirty", "forty", "fifty", "sixty", "seventy", "eighty", "ninety"}

\* part in number_words: the part is one token and that token is a key
in_number_words(part) == Len(part) = 1 /\ part[1] \in DOMAIN number_words

_word_to_number(word) ==
  LET w == strip(lower(word))
      parts == split(w, "-")
      words == split_whitespace(w)
  IN IF in_number_words(w) THEN [int |-> number_words[w[1]]]
     ELSE IF /\ \E i \in 1..Len(w) : w[i] = "-"
             /\ Len(parts) = 2 /\ in_number_words(parts[1]) /\ in_number_words(parts[2])
             /\ parts[1][1] \in TensWords
       THEN [int |-> number_words[parts[1][1]] + number_words[parts[2][1]]]
     ELSE IF /\ Len(words) = 2
             /\ Len(words[1]) = 1 /\ words[1][1] \in TensWords
             /\ in_number_words(words[2])
       THEN [int |-> number_words[words[1][1]] + number_words[words[2][1]]]
     ELSE None

\* the domains _determine_context scores
ContextTypes == {"review", "speech", "document", "settings"}

\* a helper is called on its own: _match_intent on a sentence under a dominant
\* context, or _word_to_number on a word
HelperCalls ==
  [fn : {"_match_intent"}, text : PhraseTexts, dominant_context : ContextTypes]
  \cup [fn : {"_word_to_number"}, word : Words]

InitHelpers ==
  /\ session = SessionState
  /\ responses = <<>>
  /\ reply = None
  /\ raised = FALSE
  /\ question_generator = TRUE
  /\ answer_evaluator = TRUE
  /\ document_processor = TRUE
  /\ utterance = None
  /\ classification = None
  /\ arguments \in HelperCalls
  /\ returned = None

MatchIntent ==
  /\ returned = None
  /\ arguments.fn = "_match_intent"
  /\ returned' = [value |-> _match_intent(Phrase(arguments.text), arguments.dominant_context)]
  /\ UNCHANGED <<session, responses, reply, raised, question_generator,
                 answer_evaluator, document_processor, utterance, classification,
                 arguments>>

WordToNumber ==
  /\ returned = None
  /\ arguments.fn = "_word_to_number"
  /\ returned' = [value |-> _word_to_number(arguments.word)]
  /\ UNCHANGED <<session, responses, reply, raised, question_generator,
                 answer_evaluator, document_processor, utterance, classification,
                 arguments>>

NextHelpers == MatchIntent \/ WordToNumber

SpecHelpers == InitHelpers /\ [][NextHelpers]_vars

(* -------------------- review sessions run to their end ------------------ *)
\* answers evaluated in one conversation; not below the num_questions a
\* session starts with
MaxSessionAnswers == 5

\* collaborators that answer; the verdict has no part in how a session ends
SessionEnvs == {e \in AloneEnvs : e.ev = "correct"}

\* one utterance with a single intent goes through
\* generate_assistant_response and handle_intent
SessionOutcomes(s, d) ==
  {handle_intent(s, generate_assistant_response(s, d), <<e>>) : e \in SessionEnvs}

ChooseNumQuestions ==
  \E n \in MinNumQuestions..MaxSessionAnswers :
    \E o \in SessionOutcomes(session, [intent |-> "set_num_questions", text |-> "t",
                                       num_questions |-> [int |-> n]]) :
      /\ session' = o.session
      /\ responses' = o.responses
      /\ reply' = o.reply
      /\ raised' = o.raised
      /\ UNCHANGED <<question_generator, answer_evaluator, document_processor,
                     utterance, classification, arguments, returned>>

StartSession ==
  /\ session.total_answered < MaxSessionAnswers
  /\ \E o \in SessionOutcomes(session, [intent |-> "start_review", text |-> "t"]) :
       /\ session' = o.session
       /\ responses' = o.responses
       /\ reply' = o.reply
       /\ raised' = o.raised
       /\ UNCHANGED <<question_generator, answer_evaluator, document_processor,
                      utterance, classification, arguments, returned>>

AnswerQuestion ==
  \E a \in Answers :
    \E o \in SessionOutcomes(session, [intent |-> "answer", answer |-> a, text |-> a]) :
      /\ session' = o.session
      /\ responses' = o.responses
      /\ reply' = o.reply
      /\ raised' = o.raised
      /\ UNCHANGED <<question_generator, answer_evaluator, document_processor,
                     utterance, classification, arguments, returned>>

ContinueSession ==
  \E o \in SessionOutcomes(session, [intent |-> "continue", text |-> "t"]) :
    /\ session' = o.session
    /\ responses' = o.responses
    /\ reply' = o.reply
    /\ raised' = o.raised
    /\ UNCHANGED <<question_generator, answer_evaluator, document_processor,
                   utterance, classification, arguments, returned>>

NextSession ==
  \/ ProcessUploadedFile \/ ChooseNumQuestions \/ StartSession
  \/ AnswerQuestion \/ ContinueSession

\* the user keeps answering and continuing
SpecSession ==
  /\ InitIntents
  /\ [][NextSession]_vars
  /\ WF_vars(AnswerQuestion)
  /\ WF_vars(ContinueSession)

(* ------------------------------ claims --------------------------------- *)
\* a reply that only guides the user: a text, no question, no summary
Guidance(r) ==
  /\ "text" \in DOMAIN r /\ r.text # <<>>
  /\ "question" \notin DOMAIN r
  /\ "session_summary" \notin DOMAIN r
  /\ "evaluation" \notin DOMAIN r

\* the last call of handle_intent ran the handler of label alone and returned
Handled(label) ==
  /\ ~raised
  /\ Len(responses) = 1
  /\ "intent" \in DOMAIN reply
  /\ reply.intent = label

\* C1: in every reachable state, is_reviewing = false implies
\* current_question = null (stop_review clears both).
C1_IdleHasNoQuestion ==
  ~session.is_reviewing => session.current_question = None

\* C2: in every reachable state, is_reviewing = true implies
\* total_answered <= num_questions.
C2_AnsweredWithinLimit ==
  session.is_reviewing => session.total_answered <= session.num_questions

\* C3: in every reachable state, awaiting_feedback = true implies
\* is_reviewing = true.
C3_AwaitingIsReviewing ==
  session.awaiting_feedback => session.is_reviewing

\* C4: in every reachable state, awaiting_feedback = true implies that
\* next_question is not null.
C4_AwaitingHasNext ==
  session.awaiting_feedback => session.next_question # None

\* reached: a second answer of a session has been evaluated and its successor
\* is held back
C4_Witness ==
  /\ session.is_reviewing
  /\ session.awaiting_feedback
  /\ session.next_question # None
  /\ session.total_answered = 2

\* C5: a step in which the answer handler runs while awaiting_feedback = true
\* leaves total_answered, correct_answers, question_history and next_question
\* unchanged.
C5_AnswerWhileAwaitingIsRejected ==
  [][(session.awaiting_feedback /\ Handled("answer")')
       => /\ session'.total_answered = session.total_answered
          /\ session'.correct_answers = session.correct_answers
          /\ session'.question_history = session.question_history
          /\ session'.next_question = session.next_question]_vars

\* C6: whenever handle_answer, run on a reviewing session with an active
\* question, returns after counting the answer and total_answered is still
\* below num_questions, the new session has awaiting_feedback = true, a
\* next_question, the same current_question, and the reply carries the
\* feedback and no question.
C6_AnswerWithholdsNextQuestion ==
  \A d \in DataFor("answer"), e \in Envs :
    LET o == handle_answer(session, d, e) IN
    (/\ session.is_reviewing
     /\ session.current_question # None
     /\ ~o.raised
     /\ o.session.total_answered = session.total_answered + 1
     /\ o.session.total_answered < o.session.num_questions)
    => /\ o.session.awaiting_feedback
       /\ o.session.next_question # None
       /\ o.session.current_question = session.current_question
       /\ "evaluation" \in DOMAIN o.response
       /\ o.response.text[1] = o.response.evaluation.feedback
       /\ "question" \notin DOMAIN o.response
       /\ "session_summary" \notin DOMAIN o.response

\* reached: an answer that was not the last one got its feedback
C6_Witness ==
  /\ Handled("answer")
  /\ "evaluation" \in DOMAIN reply
  /\ "question" \notin DOMAIN reply
  /\ session.is_reviewing
  /\ session.awaiting_feedback
  /\ session.total_answered < session.num_questions
  /\ session.question_history[Len(session.question_history)].question
       = session.current_question

\* C7: whenever handle_continue runs with is_reviewing and awaiting_feedback
\* both true, the new current_question is the old next_question,
\* next_question is null, awaiting_feedback is false, counters and history
\* are unchanged, and the reply carries that question.
C7_ContinuePromotesNextQuestion ==
  \A d \in DataFor("continue"), e \in Envs :
    LET o == handle_continue(session, d, e) IN
    (session.is_reviewing /\ session.awaiting_feedback)
    => /\ ~o.raised
       /\ o.session.current_question = session.next_question
       /\ o.session.current_question # None
       /\ o.session.next_question = None
       /\ ~o.session.awaiting_feedback
       /\ o.session.total_answered = session.total_answered
       /\ o.session.correct_answers = session.correct_answers
       /\ o.session.question_history = session.question_history
       /\ "question" \in DOMAIN o.response
       /\ o.response.question = session.next_question

\* reached: continue has presented the question the last answer generated
C7_Witness ==
  /\ Handled("continue")
  /\ "question" \in DOMAIN reply
  /\ reply.question = session.current_question
  /\ session.next_question = None
  /\ ~session.awaiting_feedback
  /\ session.is_reviewing
  /\ session.total_answered >= 1

\* C8: every guard failure leaves the session unchanged and returns a
\* guidance reply: continue while awaiting_feedback = false; answer, continue
\* or stop_review while not reviewing; answer with no active question;
\* start_review while not reviewing with documents_loaded = false, after
\* which current_question is still null.
C8_GuardFailuresChangeNothing ==
  \A e \in Envs :
    /\ \A d \in DataFor("continue") :
         LET o == handle_continue(session, d, e) IN
         (~session.awaiting_feedback \/ ~session.is_reviewing)
         => ~o.raised /\ o.session = session /\ Guidance(o.response)
    /\ \A d \in DataFor("answer") :
         LET o == handle_answer(session, d, e) IN
         (~session.is_reviewing \/ session.current_question = None)
         => ~o.raised /\ o.session = session /\ Guidance(o.response)
    /\ \A d \in DataFor("stop_review") :
         LET o == handle_stop_review(session, d, e) IN
         ~session.is_reviewing
         => ~o.raised /\ o.session = session /\ Guidance(o.response)
    /\ \A d \in DataFor("start_review") :
         LET o == handle_start_review(session, d, e) IN
         (~session.is_reviewing /\ ~session.documents_loaded)
         => /\ ~o.raised /\ o.session = session /\ Guidance(o.response)
            /\ ~o.session.is_reviewing
            /\ o.session.current_question = None

\* reached: continue was refused in the middle of a review
C8_Witness ==
  /\ Handled("continue")
  /\ reply.text = <<"Please answer the current question first.">>
  /\ session.is_reviewing
  /\ ~session.awaiting_feedback
  /\ session.current_question # None

\* a session in which nothing has been answered and no review is running
Fresh(s) ==
  /\ ~s.is_reviewing
  /\ ~s.awaiting_feedback
  /\ s.total_answered = 0
  /\ s.question_history = <<>>

\* C9: with a question generator and an answer evaluator that do not fail,
\* from a fresh session with documents_loaded = true and num_questions = 1,
\* start_review gives a reviewing session with a current_question, and the
\* answer that follows gives is_reviewing = false, current_question = null
\* and a reply whose session_summary.total is 1; awaiting_feedback is never
\* set.
C9_OneQuestionRoundTrip ==
  (/\ Fresh(session)
   /\ session.documents_loaded
   /\ session.num_questions = 1
   /\ question_generator
   /\ answer_evaluator)
  => \A e1 \in NoFailEnvs, e2 \in NoFailEnvs, d \in DataFor("answer") :
       LET o1 == handle_start_review(session, [intent |-> "start_review"], e1)
           o2 == handle_answer(o1.session, d, e2)
       IN /\ ~o1.raised
          /\ o1.session.is_reviewing
          /\ o1.session.current_question # None
          /\ ~o1.session.awaiting_feedback
          /\ ~o2.raised
          /\ ~o2.session.is_reviewing
          /\ o2.session.current_question = None
          /\ ~o2.session.awaiting_feedback
          /\ "session_summary" \in DOMAIN o2.response
          /\ o2.response.session_summary.total = 1

\* reached: the single question of a one-question session has been answered
C9_Witness ==
  /\ Handled("answer")
  /\ "session_summary" \in DOMAIN reply
  /\ reply.session_summary.total = 1
  /\ session.num_questions = 1
  /\ session.total_answered = 1
  /\ ~session.is_reviewing
  /\ session.current_question = None
  /\ ~session.awaiting_feedback

\* payloads set_num_questions is tried with: none, numbers around both limits
C10_Payloads ==
  {[intent |-> "set_num_questions"]} \cup
  {[intent |-> "set_num_questions", num_questions |-> [int |-> n]] :
     n \in {0 - 1, 0, 1, 2, 49, 50, 51, 52}}

\* C10: in every reachable state 1 <= num_questions <= 50; set_num_questions
\* with no value or a value outside [1,50] leaves the whole session
\* unmodified, and a value inside the range replaces num_questions and
\* nothing else.
C10_NumQuestionsInRange ==
  /\ 1 <= session.num_questions /\ session.num_questions <= 50
  /\ \A d \in C10_Payloads \cup DataFor("set_num_questions"), e \in Envs :
       LET o == handle_set_num_questions(session, d, e) IN
       /\ ~o.raised
       /\ IF "num_questions" \in DOMAIN d
             /\ 1 <= d.num_questions.int /\ d.num_questions.int <= 50
            THEN o.session = [session EXCEPT !.num_questions = d.num_questions.int]
            ELSE o.session = session /\ Guidance(o.response)

\* reached: a value has replaced the default and a later one was refused
C10_Witness ==
  /\ Handled("set_num_questions")
  /\ reply.text = <<"Please choose a number of questions between 1 and 50.">>
  /\ session.num_questions = 1

\* the set_* intents and the configuration field each one owns
SetIntents == {"set_question_type", "set_num_questions", "set_topic", "set_difficulty"}
OwnField(label) ==
  CASE label = "set_question_type" -> "question_type"
    [] label = "set_num_questions" -> "num_questions"
    [] label = "set_topic"         -> "current_topics"
    [] label = "set_difficulty"    -> "difficulty"

\* payloads the set_* handlers are tried with, beyond those of the actions
C11_Payloads(label) ==
  DataFor(label) \cup
  CASE label = "set_question_type" ->
         {[intent |-> label, question_type |-> t] : t \in {"MC", "open", "multiple choice", "essay"}}
    [] label = "set_num_questions" ->
         {[intent |-> label, num_questions |-> [int |-> n]] : n \in {0, 2, 50, 51}}
    [] label = "set_topic" ->
         {[intent |-> label], [intent |-> label, topics |-> <<"t1", "t2">>]}
    [] label = "set_difficulty" ->
         {[intent |-> label, difficulty |-> t] : t \in {"easy", "medium", "Hard", "extreme"}}

\* C11: each set_* intent, handled in any reachable state (Idle, Reviewing,
\* AwaitingFeedback), returns without raising and changes at most its own
\* configuration field: is_reviewing, awaiting_feedback, current_question,
\* next_question, the counters, question_history and the other
\* configuration fields are as before.
C11_SetIntentsChangeOwnFieldOnly ==
  \A label \in SetIntents :
    \A d \in C11_Payloads(label), e \in Envs :
      LET o == handlers(label, session, d, e) IN
      /\ ~o.raised
      /\ \A f \in DOMAIN session \ {OwnField(label)} : o.session[f] = session[f]

\* reached: the difficulty was changed while the session awaited feedback
C11_Witness ==
  /\ Handled("set_difficulty")
  /\ session.difficulty = "hard"
  /\ session.is_reviewing
  /\ session.awaiting_feedback
  /\ session.next_question # None
  /\ session.next_question.difficulty = "medium"

\* C12: with a question generator and an answer evaluator that do not fail,
\* in every reachable state (speech_enabled = true included) handle_intent
\* returns, for every intent of the closed set, a response with a text and
\* does not raise.
C12_HandleIntentAlwaysReplies ==
  (question_generator /\ answer_evaluator)
  => \A label \in IntentLabels :
       \A d \in DataFor(label), e \in NoFailEnvs :
         LET o == handle_intent(session, d, <<e>>) IN
         /\ ~o.raised
         /\ "text" \in DOMAIN o.reply

\* C13: when the question generator or the answer evaluator is missing, in
\* every reachable state start_review and answer return without raising and
\* with a text-only reply; start_review past its documents guard replies
\* that question generation is not available, answer past its guards
\* replies that answer evaluation is not available and changes nothing.
C13_MissingCollaboratorsReply ==
  /\ ~question_generator
     => \A d \in DataFor("start_review"), e \in Envs :
          LET o == handle_start_review(session, d, e) IN
          /\ ~o.raised
          /\ Guidance(o.response)
          /\ session.documents_loaded
             => o.response.text = <<"Question generation is not available.">>
  /\ (~question_generator \/ ~answer_evaluator)
     => \A d \in DataFor("answer"), e \in Envs :
          LET o == handle_answer(session, d, e) IN
          /\ ~o.raised
          /\ Guidance(o.response)
          /\ o.session = session
          /\ (~answer_evaluator /\ session.is_reviewing /\ session.current_question # None)
             => o.response.text = <<"Answer evaluation is not available.">>

\* reached: an answer to an active question met a missing evaluator
C13_Witness ==
  /\ ~answer_evaluator
  /\ Handled("answer")
  /\ reply.text = <<"Answer evaluation is not available.">>
  /\ session.is_reviewing
  /\ session.current_question # None
  /\ session.total_answered = 0

\* C14: in every reachable state, handle_intent for start_review or answer
\* does not raise, whatever the collaborator calls do (a call that raises
\* is turned into a textual reply).
C14_CollaboratorFailuresAreCaught ==
  \A label \in {"start_review", "answer"} :
    \A d \in DataFor(label), e \in Envs :
      LET o == handle_intent(session, d, <<e>>) IN
      /\ ~o.raised
      /\ "text" \in DOMAIN o.reply

\* C18: a set_topic intent flagged topic_extraction_failed, and a
\* set_num_questions, set_difficulty or set_question_type intent without its
\* payload field, handled in any reachable state, return a text-only reply
\* and leave the session (current_topics, num_questions, difficulty and
\* question_type included) as it was.
C18_ExtractionFailuresChangeNothing ==
  \A e \in Envs :
    /\ \A d \in {[intent |-> "set_topic", text |-> "t", topic_extraction_failed |-> TRUE]} :
         LET o == handlers("set_topic", session, d, e) IN
         ~o.raised /\ o.session = session /\ Guidance(o.response)
    /\ \A label \in {"set_num_questions", "set_difficulty", "set_question_type"} :
         LET o == handlers(label, session, [intent |-> label, text |-> "t"], e) IN
         ~o.raised /\ o.session = session /\ Guidance(o.response)

\* reached: topics were set, and a later set_topic whose topic could not be
\* extracted left them in place
C18_Witness ==
  /\ Handled("set_topic")
  /\ reply.text = <<"I couldn't clearly identify the topics you want to focus on.">>
  /\ session.current_topics = <<"t1">>
  /\ session.difficulty = "hard"

\* the texts of rs separated by single spaces
RECURSIVE C19_Text(_)
C19_Text(rs) ==
  IF Len(rs) = 1 THEN rs[1].text
  ELSE rs[1].text \o <<" ">> \o C19_Text(Tail(rs))

\* positions of rs that carry key, and those of start_review responses that
\* carry a question
C19_With(rs, key) == {i \in 1..Len(rs) : key \in DOMAIN rs[i]}
C19_StartReview(rs) ==
  {i \in C19_With(rs, "question") : "intent" \in DOMAIN rs[i] /\ rs[i].intent = "start_review"}
C19_Min(S) == CHOOSE i \in S : \A j \in S : i <= j

\* C19: the reply of a call of handle_intent that returned has the texts of
\* the primary response and of the additional responses, in processing
\* order, joined by single spaces; its question is that of the first
\* start_review response with a question if there is one, else that of the
\* first response with a question; its session_summary is that of the
\* first response with one.
C19_CombinedReply ==
  (~raised /\ responses # <<>>)
  => /\ \A i \in 1..Len(responses) : "text" \in DOMAIN responses[i]
     /\ reply.text = C19_Text(responses)
     /\ "question" \in DOMAIN reply <=> C19_With(responses, "question") # {}
     /\ C19_StartReview(responses) # {}
        => reply.question = responses[C19_Min(C19_StartReview(responses))].question
     /\ (C19_StartReview(responses) = {} /\ C19_With(responses, "question") # {})
        => reply.question = responses[C19_Min(C19_With(responses, "question"))].question
     /\ "session_summary" \in DOMAIN reply <=> C19_With(responses, "session_summary") # {}
     /\ C19_With(responses, "session_summary") # {}
        => reply.session_summary
             = responses[C19_Min(C19_With(responses, "session_summary"))].session_summary

\* reached: continue presented a question and the start_review that came
\* with it generated another one, which the reply carries
C19_Witness ==
  /\ ~raised
  /\ Len(responses) = 2
  /\ responses[1].intent = "continue"
  /\ "question" \in DOMAIN responses[1]
  /\ responses[2].intent = "start_review"
  /\ "question" \in DOMAIN responses[2]
  /\ responses[1].question # responses[2].question
  /\ reply.question = responses[2].question
  /\ reply.text = responses[1].text \o <<" ">> \o responses[2].text

\* the primary intent followed by the additional intents of a classification
C15_Labels(result) ==
  <<result.intent>> \o [k \in 1..Len(result.additional_intents) |->
                          result.additional_intents[k].intent]

\* the fixed priority table: settings, speech, review control, review
\* information, answer, unknown, out_of_scope
C15_Rank(label) ==
  CASE label \in SetIntents -> 1
    [] label \in {"enable_speech", "disable_speech"} -> 2
    [] label \in {"start_review", "stop_review", "document_upload", "continue"} -> 3
    [] label \in {"review_status", "review_settings"} -> 4
    [] label = "answer" -> 5
    [] label = "unknown" -> 6
    [] label = "out_of_scope" -> 7

\* C15: in every classification the primary intent followed by the additional
\* intents is in non-decreasing rank of the fixed priority table: no additional
\* intent outranks the primary or an earlier additional intent
C15_AdditionalInPriorityOrder ==
  classification # None =>
    LET labels == C15_Labels(classification)
    IN \A k \in 1..(Len(labels) - 1) : C15_Rank(labels[k]) <= C15_Rank(labels[k + 1])

\* the order of the settings among themselves
C16_Rank(label) ==
  CASE label = "set_difficulty" -> 1
    [] label = "set_question_type" -> 2
    [] label = "set_num_questions" -> 3
    [] label = "set_topic" -> 4

\* C16: whenever a classification holds two or more settings, the primary
\* intent is the one highest in difficulty > question_type > num_questions >
\* topic and the other settings follow in that order in the additional intents,
\* a number of questions included
C16_SettingsInSettingOrder ==
  classification # None =>
    LET settings == SelectSeq(C15_Labels(classification), LAMBDA label : label \in SetIntents)
    IN Len(settings) >= 2 =>
         /\ classification.intent = settings[1]
         /\ \A k \in 1..(Len(settings) - 1) : C16_Rank(settings[k]) < C16_Rank(settings[k + 1])

\* no sentence of the utterance matches any pattern of the classifier: none of
\* the table, none of the number-of-questions scan, none of the settings scan
C17_NoPatternMatches ==
  \A i \in 1..Len(utterance) :
    /\ DOMAIN Phrase(utterance[i]).counts = {}
    /\ Phrase(utterance[i]).num = None
    /\ DOMAIN Phrase(utterance[i]).compound = {}

\* C17: every utterance, the empty one included, gets one primary intent of the
\* closed set and a sequence of additional intents of that set; when no
\* pattern matches, the primary intent is out_of_scope if that detector fires
\* on the whole utterance, else unknown if that one fires, else answer with the
\* whole utterance as its payload, and nothing is additional
C17_ClassifyIsTotalWithAnswerFallback ==
  classification # None =>
    /\ \A k \in 1..Len(C15_Labels(classification)) :
         C15_Labels(classification)[k] \in IntentLabels
    /\ C17_NoPatternMatches =>
         /\ classification.additional_intents = <<>>
         /\ IF out_of_scope_matches(utterance) THEN classification.intent = "out_of_scope"
            ELSE IF unknown_matches(utterance) THEN classification.intent = "unknown"
            ELSE /\ classification.intent = "answer"
                 /\ classification.answer = utterance

\* two sentences that match nothing were classified as an answer
C17_Witness ==
  /\ classification # None
  /\ Len(utterance) = 2
  /\ C17_NoPatternMatches
  /\ ~out_of_scope_matches(utterance)
  /\ classification.intent = "answer"
  /\ classification.answer = utterance

\* the last utterance held a setting and start_review, and start_review
\* generated the question the session now holds
C20_SettingsAndStart ==
  /\ classification # None
  /\ ~raised
  /\ \E k \in 1..Len(C15_Labels(classification)) : C15_Labels(classification)[k] \in SetIntents
  /\ \E k \in 1..Len(C15_Labels(classification)) :
       /\ C15_Labels(classification)[k] = "start_review"
       /\ "question" \in DOMAIN responses[k]
  /\ session.current_question # None

\* C20: when one utterance both changes settings and starts a review, every
\* setting is applied before start_review is handled: the question stored in
\* current_question was generated with the topics, the question type and the
\* difficulty the session holds after that utterance
C20_SettingsAppliedBeforeStart ==
  C20_SettingsAndStart =>
    /\ session.current_question.topics = session.current_topics
    /\ session.current_question.type = session.question_type
    /\ session.current_question.difficulty = session.difficulty

\* the intents that match the sentence of the call, after the context rule for
\* start_review and enable_speech
C21_Candidates ==
  LET all == DOMAIN Phrase(arguments.text).counts
  IN IF {"start_review", "enable_speech"} \subseteq all /\ arguments.dominant_context = "speech"
       THEN all \ {"start_review"}
     ELSE IF {"start_review", "enable_speech"} \subseteq all
             /\ arguments.dominant_context = "review"
       THEN all \ {"enable_speech"}
     ELSE all

\* among them, those with the highest match count
C21_MostMatched ==
  {a \in C21_Candidates :
     \A b \in C21_Candidates :
       Phrase(arguments.text).counts[b] <= Phrase(arguments.text).counts[a]}

\* C21: _match_intent returns an intent with the highest match count, and among
\* several with that count one that no other of them outranks in the fixed
\* intent-priority order
C21_TiesGoToPriority ==
  (returned # None /\ arguments.fn = "_match_intent" /\ C21_Candidates # {}) =>
    /\ returned.value \in C21_MostMatched
    /\ \A b \in C21_MostMatched : C15_Rank(returned.value) <= C15_Rank(b)

\* the ones words
C22_OnesWords == {"one", "two", "three", "four", "five", "six", "seven", "eight", "nine"}

\* the word of the call, in lower case and without blanks around it
C22_Word == strip(lower(arguments.word))

\* a tens word, a hyphen or blanks, a ones word
C22_IsCompound ==
  \/ /\ Len(C22_Word) = 3 /\ C22_Word[2] = "-"
     /\ C22_Word[1] \in TensWords /\ C22_Word[3] \in C22_OnesWords
  \/ /\ \A i \in 1..Len(C22_Word) : C22_Word[i] # "-"
     /\ Len(split_whitespace(C22_Word)) = 2
     /\ Len(split_whitespace(C22_Word)[1]) = 1 /\ Len(split_whitespace(C22_Word)[2]) = 1
     /\ split_whitespace(C22_Word)[1][1] \in TensWords
     /\ split_whitespace(C22_Word)[2][1] \in C22_OnesWords

\* C22: _word_to_number gives the value of a basic number word, tens + ones for
\* a compound of a tens word and a ones word, and None for every other input
C22_WordToNumber ==
  (returned # None /\ arguments.fn = "_word_to_number") =>
    IF Len(C22_Word) = 1 /\ C22_Word[1] \in DOMAIN number_words
      THEN returned.value = [int |-> number_words[C22_Word[1]]]
    ELSE IF C22_IsCompound
      THEN returned.value =
             [int |-> number_words[C22_Word[1]] + number_words[C22_Word[Len(C22_Word)]]]
    ELSE returned.value = None

\* the last call of handle_intent returned and the last handler it ran was
\* start_review, which generated a question
C23_StartReviewSucceeded ==
  /\ ~raised
  /\ responses # <<>>
  /\ "intent" \in DOMAIN responses[Len(responses)]
  /\ responses[Len(responses)].intent = "start_review"
  /\ "question" \in DOMAIN responses[Len(responses)]

\* C23: after a successful start_review, from Idle, from Reviewing or after a
\* session stopped while awaiting feedback, the machine is reviewing and not
\* awaiting feedback, and no question prepared earlier is left in next_question
C23_StartReviewLeavesReviewing ==
  C23_StartReviewSucceeded =>
    /\ session.is_reviewing
    /\ ~session.awaiting_feedback
    /\ session.next_question = None

\* the last handler of the last call was answer and it ended the session
C24_SessionCompleted ==
  /\ ~raised
  /\ responses # <<>>
  /\ "intent" \in DOMAIN responses[Len(responses)]
  /\ responses[Len(responses)].intent = "answer"
  /\ "session_summary" \in DOMAIN responses[Len(responses)]

\* C24: each review session counts its own answers only: after a successful
\* start_review nothing is counted as answered or correct, and the summary of
\* a session run to its end has total = num_questions
C24_SessionCountsItsOwnAnswers ==
  /\ C23_StartReviewSucceeded =>
       session.total_answered = 0 /\ session.correct_answers = 0
  /\ C24_SessionCompleted =>
       responses[Len(responses)].session_summary.total = session.num_questions

\* C25: whenever the reply of handle_intent carries a question, that question
\* is the session's current_question after the call
C25_ReplyQuestionIsCurrentQuestion ==
  (~raised /\ reply # None /\ "question" \in DOMAIN reply) =>
    reply.question = session.current_question

\* C26: while a review is active there is a question to answer
C26_ReviewingHasQuestion ==
  session.is_reviewing => session.current_question # None

\* C27: a call of handle_intent that raises after an answer was counted leaves
\* the machine where the same question cannot be answered and counted again:
\* awaiting feedback, or idle, or without a current question
C27_AnswerIsAtomic ==
  [][(raised' /\ session'.total_answered > session.total_answered) =>
       \/ session'.awaiting_feedback
       \/ ~session'.is_reviewing
       \/ session'.current_question # session.current_question]_vars

\* C29: the response of handle_intent for a single intent of the closed set
\* carries that intent's label as its tag, out_of_scope included
C29_EveryLabelHasItsHandler ==
  \A label \in IntentLabels :
    \A d \in DataFor(label), e \in AloneEnvs :
      LET o == handle_intent(session, d, <<e>>) IN
      ~o.raised => "intent" \in DOMAIN o.reply /\ o.reply.intent = label

\* C30: no intent label occurs twice in a classification: the additional
\* intents hold neither the primary intent's label nor one label twice
C30_NoLabelTwice ==
  classification # None =>
    \A i, j \in 1..Len(C15_Labels(classification)) :
      i # j => C15_Labels(classification)[i] # C15_Labels(classification)[j]

\* C28: with documents loaded and collaborators that answer, a review session
\* ends when the user keeps answering and continuing: the machine reaches
\* Idle with a reply that carries a session_summary, and no answer that brings
\* total_answered to num_questions leaves the session open
C28_SessionTerminates ==
  /\ session.is_reviewing
       ~> (~session.is_reviewing /\ reply # None /\ "session_summary" \in DOMAIN reply)
  /\ [][(session'.total_answered = session.total_answered + 1 /\ session'.is_reviewing)
          => session'.total_answered < session'.num_questions]_vars

\* a session of three questions was answered to its end
C28_Witness ==
  /\ ~session.is_reviewing
  /\ ~raised
  /\ reply # None
  /\ "session_summary" \in DOMAIN reply
  /\ reply.intent = "answer"
  /\ reply.session_summary.total = 3
  /\ session.num_questions = 3

====
